---- MODULE Spec2Model ----
(***************************************************************************)
(* A model of the smart-paste extension (src/src/extension.ts): the        *)
(* AiPasteProvider's three handlers, prepareDocumentPaste (copy),          *)
(* provideDocumentPasteEdits (paste) and resolveDocumentPasteEdit (the     *)
(* user picked the smart-paste option), each cut into one action per       *)
(* await, together with the host around them: the clipboard transfer       *)
(* object, the cancellation token and the language model's response        *)
(* stream.                                                                 *)
(*                                                                         *)
(* Strings whose characters matter (the model's response, the sidecar      *)
(* JSON payload, language identifiers, document text) are sequences of     *)
(* one-character strings.  The copied text is opaque to the handlers       *)
(* apart from its truthiness, and is a TLA+ string.                        *)
(***************************************************************************)
EXTENDS Integers, Sequences, FiniteSets, TLC

(***************************************************************************)
(* Bounds of the model.                                                    *)
(***************************************************************************)
\* The longest response, in characters, the language model streams.
MaxRespLen == 5
\* The most chunks one response stream delivers.
MaxChunks == 3
\* The most times the host resolves one candidate.
MaxResolves == 2
\* Document lengths beyond 2 * maxLen that the context excerpt is tried on.
ExtraDocLen == 2

(***************************************************************************)
(* JavaScript's Array.prototype / String.prototype helpers, as the code    *)
(* uses them.                                                              *)
(***************************************************************************)
Min(a, b) == IF a < b THEN a ELSE b

Max(a, b) == IF a > b THEN a ELSE b

\* The index a relative slice argument denotes in a sequence of length n.
SliceIndex(n, k) == IF k < 0 THEN Max(n + k, 0) ELSE Min(k, n)

\* seq.slice(start)
SliceFrom(seq, start) == SubSeq(seq, SliceIndex(Len(seq), start) + 1, Len(seq))

\* seq.slice(start, end)
Slice(seq, start, end) ==
    SubSeq(seq, SliceIndex(Len(seq), start) + 1, SliceIndex(Len(seq), end))

\* The white space and line terminators String.prototype.trim strips.
WhiteSpace == {" ", "\t", "\n", "\r"}

RECURSIVE TrimStart(_)
TrimStart(s) ==
    IF s # <<>> /\ Head(s) \in WhiteSpace THEN TrimStart(Tail(s)) ELSE s

RECURSIVE TrimEnd(_)
TrimEnd(s) ==
    IF s # <<>> /\ s[Len(s)] \in WhiteSpace
    THEN TrimEnd(SubSeq(s, 1, Len(s) - 1))
    ELSE s

\* s.trim()
Trim(s) == TrimEnd(TrimStart(s))

\* s.split(/\r\n|\r|\n/), from position i on, cur being the line so far.
RECURSIVE SplitFrom(_, _, _)
SplitFrom(s, i, cur) ==
    IF i > Len(s) THEN <<cur>>
    ELSE IF s[i] = "\r" /\ i < Len(s) /\ s[i + 1] = "\n"
         THEN <<cur>> \o SplitFrom(s, i + 2, <<>>)
    ELSE IF s[i] \in {"\r", "\n"}
         THEN <<cur>> \o SplitFrom(s, i + 1, <<>>)
    ELSE SplitFrom(s, i + 1, Append(cur, s[i]))

SplitLines(s) == SplitFrom(s, 1, <<>>)

\* strs.join(sep)
RECURSIVE Join(_, _)
Join(strs, sep) ==
    IF strs = <<>> THEN <<>>
    ELSE IF Len(strs) = 1 THEN strs[1]
    ELSE strs[1] \o sep \o Join(Tail(strs), sep)

(***************************************************************************)
(* JSON.stringify and JSON.parse on the values the sidecar payload can     *)
(* hold.  A JSON value is a record [kind, key, value]: kind "object" is an *)
(* object of one string member key: value, "empty" is {}, "null" is null,  *)
(* and "undefined" is JavaScript's undefined (no JSON value).              *)
(***************************************************************************)
Undefined == [kind |-> "undefined", key |-> <<>>, value |-> <<>>]

JsonNull == [kind |-> "null", key |-> <<>>, value |-> <<>>]

JsonEmpty == [kind |-> "empty", key |-> <<>>, value |-> <<>>]

JsonObject(k, v) == [kind |-> "object", key |-> k, value |-> v]

\* The characters JSON.stringify escapes with a backslash in a string.
RECURSIVE JsonEscape(_)
JsonEscape(s) ==
    IF s = <<>> THEN <<>>
    ELSE IF Head(s) \in {"\"", "\\"}
         THEN <<"\\", Head(s)>> \o JsonEscape(Tail(s))
    ELSE <<Head(s)>> \o JsonEscape(Tail(s))

JsonQuote(s) == <<"\"">> \o JsonEscape(s) \o <<"\"">>

\* JSON.stringify of an object of one string member.
JSONstringify(obj) ==
    <<"{">> \o JsonQuote(obj.key) \o <<":">> \o JsonQuote(obj.value) \o <<"}">>

\* A JSON string literal read from s at i, just after its opening quote:
\* the string read and the position after its closing quote, or a failure.
\* Of the escapes only \" and \\ are read, the two JSON.stringify writes for
\* the characters the payloads here are made of.
RECURSIVE JsonReadString(_, _, _)
JsonReadString(s, i, acc) ==
    IF i > Len(s) THEN [ok |-> FALSE, str |-> <<>>, next |-> i]
    ELSE IF s[i] = "\"" THEN [ok |-> TRUE, str |-> acc, next |-> i + 1]
    ELSE IF s[i] = "\\"
         THEN IF i < Len(s) /\ s[i + 1] \in {"\"", "\\"}
              THEN JsonReadString(s, i + 2, Append(acc, s[i + 1]))
              ELSE [ok |-> FALSE, str |-> <<>>, next |-> i]
    ELSE JsonReadString(s, i + 1, Append(acc, s[i]))

JsonThrow == [ok |-> FALSE, val |-> Undefined]

\* JSON.parse(s): the value read, or ok = FALSE where it throws a SyntaxError.
JSONparse(s) ==
    IF s = <<"n", "u", "l", "l">> THEN [ok |-> TRUE, val |-> JsonNull]
    ELSE IF s = <<"{", "}">> THEN [ok |-> TRUE, val |-> JsonEmpty]
    ELSE IF Len(s) >= 2 /\ s[1] = "{" /\ s[2] = "\""
    THEN LET k == JsonReadString(s, 3, <<>>)
         IN  IF k.ok /\ k.next + 1 <= Len(s)
                /\ s[k.next] = ":" /\ s[k.next + 1] = "\""
             THEN LET v == JsonReadString(s, k.next + 2, <<>>)
                  IN  IF v.ok /\ v.next = Len(s) /\ s[v.next] = "}"
                      THEN [ok |-> TRUE, val |-> JsonObject(k.str, v.str)]
                      ELSE JsonThrow
             ELSE JsonThrow
    ELSE JsonThrow

(***************************************************************************)
(* The host's values: language identifiers, documents, ranges, the         *)
(* clipboard transfer object and the chat models.                          *)
(***************************************************************************)
Py == <<"p", "y">>

Js == <<"j", "s">>

\* A language identifier holding the two characters JSON escapes.
Odd == <<"c", "\"", "\\">>

\* The languages of the documents text is copied from.
LanguageIds == {Js, Odd}

\* The text of a document of n characters: character i is named by i.
DocText(n) == [i \in 1..n |-> ToString(i)]

\* A range is a pair of offsets into the document's text, start <= end.
RangeOf(s, e) == [start |-> s, end |-> e]

\* The documents a paste goes into, and the range lists of a paste.
Documents ==
    { [languageId |-> Js, length |-> 0], [languageId |-> Py, length |-> 2] }

RangeLists(document) ==
    IF document.length = 0 THEN { <<RangeOf(0, 0)>> }
    ELSE { <<RangeOf(1, 1)>>,
           <<RangeOf(0, 0), RangeOf(document.length, document.length)>> }

\* An entry of the transfer object: absent, or an item holding a string.
NoItem == [present |-> FALSE, value |-> <<>>]

Item(v) == [present |-> TRUE, value |-> v]

\* The copied text: text/plain is absent, the empty string, or some code.
NoText == [present |-> FALSE, value |-> ""]

TextItem(t) == [present |-> TRUE, value |-> t]

CopiedTexts == {"", "def f(x): return x+1"}

\* The private mime type's key of the sidecar object.
SourceLanguageKey ==
    <<"s", "o", "u", "r", "c", "e", "L", "a", "n", "g", "u", "a", "g", "e">>

\* Sidecar payloads this extension did not write.  Malformed: an empty
\* string, and an object cut inside its value.  Well formed, but no
\* CopyMetadata: null.
MalformedPayloads ==
    { <<>>, SubSeq(JSONstringify(JsonObject(SourceLanguageKey, Py)), 1, 19) }

ForeignPayloads == MalformedPayloads \cup { <<"n", "u", "l", "l">> }

\* What vscode.lm.selectChatModels can answer.
ModelLists == { <<>>, <<"gpt-4", "gpt-4-32k">> }

\* The characters of a response, and every response up to the bound.
RespAlphabet == {"x", "\n", "\r"}

Responses == UNION { [1..n -> RespAlphabet] : n \in 0..MaxRespLen }

\* The responses the protocol is explored with: nothing, and a fenced block.
Fenced == <<"f", "\n", "x", "\n", "f">>

MainAnswers == { <<>>, Fenced }

(***************************************************************************)
(* State.                                                                  *)
(***************************************************************************)
VARIABLES
    dataTransfer,  \* the clipboard's transfer object: [text, meta]
    copiedFrom,    \* history: [known, languageId] of the document copied from
    ppc,           \* provideDocumentPasteEdits: "idle", "p37", "p46", "p55", "done"
    ptoken,        \* its token's isCancellationRequested
    pcancelAt,     \* history: the await at which its token was cancelled
    pdocument,     \* its document argument
    pranges,       \* its ranges argument
    ptext,         \* its local text
    pmetadata,     \* its local metadata
    presult,       \* what it returned: "pending", "undefined", "edits", "threw"
    lmModels,      \* what selectChatModels answers during it; its local models
    pparsed,       \* history: it read the sidecar entry and gave it to JSON.parse
    edits,         \* the array of candidates it returned; resolve works on edits[1]
    rpc,           \* resolveDocumentPasteEdit: "idle", "r100", "r107", "done"
    rtoken,        \* its token's isCancellationRequested
    rcancelAt,     \* history: where its token was cancelled
    rthrew,        \* history: what threw during it: "none", "sendRequest", "stream"
    messages,      \* the messages of its sendRequest call
    stream,        \* what request.text has still to deliver
    parts,         \* its local parts
    rresult,       \* what it returned: "pending", "undefined", "edit", "threw"
    wrote,         \* history: this call assigned edit.additionalEdit
    resolves,      \* history: calls of resolveDocumentPasteEdit on the candidate
    requests,      \* history: sendRequest calls since the paste began
    writes,        \* history: assignments to the candidate's additionalEdit
    firstOk,       \* history: the candidate's first successful resolution
    lmAnswers      \* the responses the language model may stream

clipboardVars == <<dataTransfer, copiedFrom>>

pasteVars ==
    <<ppc, ptoken, pcancelAt, pdocument, pranges, ptext, pmetadata, lmModels,
      pparsed, presult>>

resolveVars ==
    <<rpc, rtoken, rcancelAt, rthrew, messages, stream, parts, rresult, wrote>>

historyVars == <<resolves, requests, writes, firstOk>>

vars == <<clipboardVars, pasteVars, resolveVars, historyVars, edits, lmAnswers>>

\* A candidate's unset additionalEdit.
NoAdditionalEdit == [set |-> FALSE, entries |-> <<>>]

NoDocument == [languageId |-> <<>>, length |-> 0]

\* new SmartPasteEdit(text, document, ranges, metadata, model)
SmartPasteEdit(text, document, ranges, metadata, model) ==
    [text |-> text, document |-> document, ranges |-> ranges,
     metadata |-> metadata, model |-> model,
     additionalEdit |-> NoAdditionalEdit]

NoFirstOk == [known |-> FALSE, chunks |-> 0, text |-> <<>>]

PasteIdle ==
    /\ ppc = "idle"
    /\ ptoken = FALSE
    /\ pcancelAt = "never"
    /\ pdocument = NoDocument
    /\ pranges = <<>>
    /\ ptext = NoText
    /\ pmetadata = Undefined
    /\ lmModels = <<>>
    /\ pparsed = FALSE
    /\ presult = "pending"

ResolveIdle ==
    /\ rpc = "idle"
    /\ rtoken = FALSE
    /\ rcancelAt = "never"
    /\ rthrew = "none"
    /\ messages = <<>>
    /\ stream = <<>>
    /\ parts = <<>>
    /\ rresult = "pending"
    /\ wrote = FALSE

HistoryIdle ==
    /\ resolves = 0
    /\ requests = 0
    /\ writes = 0
    /\ firstOk = NoFirstOk

\* The same, as what an action resets.
PasteReset ==
    /\ ppc' = "idle"
    /\ ptoken' = FALSE
    /\ pcancelAt' = "never"
    /\ pdocument' = NoDocument
    /\ pranges' = <<>>
    /\ ptext' = NoText
    /\ pmetadata' = Undefined
    /\ lmModels' = <<>>
    /\ pparsed' = FALSE
    /\ presult' = "pending"

ResolveReset ==
    /\ rpc' = "idle"
    /\ rtoken' = FALSE
    /\ rcancelAt' = "never"
    /\ rthrew' = "none"
    /\ messages' = <<>>
    /\ stream' = <<>>
    /\ parts' = <<>>
    /\ rresult' = "pending"
    /\ wrote' = FALSE

HistoryReset ==
    /\ resolves' = 0
    /\ requests' = 0
    /\ writes' = 0
    /\ firstOk' = NoFirstOk

\* After activate(): the provider is registered and nothing was copied.
Init ==
    /\ dataTransfer = [text |-> NoText, meta |-> NoItem]
    /\ copiedFrom = [known |-> FALSE, languageId |-> <<>>]
    /\ PasteIdle
    /\ ResolveIdle
    /\ HistoryIdle
    /\ edits = <<>>
    /\ lmAnswers = MainAnswers

\* No handler is running.
Quiet == ppc \in {"idle", "done"} /\ rpc \in {"idle", "done"}

(***************************************************************************)
(* Copy: the host fills a fresh transfer object with the selection and     *)
(* calls prepareDocumentPaste.  The model follows one transfer object at   *)
(* a time, so a copy forgets the paste and the candidate before it.        *)
(***************************************************************************)
\* A slip: the object is written under another key than the one read back.
NewCopyMetadataOtherKey(document) ==
    JsonObject(<<"l", "a", "n", "g", "u", "a", "g", "e">>, document.languageId)

\* const metadata: CopyMetadata = { sourceLanguage: document.languageId }
NewCopyMetadata(document) == JsonObject(SourceLanguageKey, document.languageId)

\* dataTransfer.set(metadataMime, new DataTransferItem(JSON.stringify(metadata)))
prepareDocumentPaste(document, transfer) ==
    [transfer EXCEPT !.meta = Item(JSONstringify(NewCopyMetadata(document)))]

Forget ==
    /\ PasteReset
    /\ ResolveReset
    /\ HistoryReset
    /\ edits' = <<>>

Copy ==
    \E languageId \in LanguageIds, t \in CopiedTexts :
        /\ Quiet
        /\ dataTransfer' =
               prepareDocumentPaste([languageId |-> languageId, length |-> 0],
                                    [text |-> TextItem(t), meta |-> NoItem])
        /\ copiedFrom' = [known |-> TRUE, languageId |-> languageId]
        /\ Forget
        /\ UNCHANGED lmAnswers

\* A transfer object this provider never prepared: copied elsewhere, with or
\* without text, with no sidecar entry or a foreign one.
ForeignCopy ==
    \E text \in {NoText, TextItem("def f(x): return x+1")},
       meta \in {NoItem} \cup { Item(p) : p \in ForeignPayloads } :
        /\ Quiet
        /\ dataTransfer' = [text |-> text, meta |-> meta]
        /\ copiedFrom' = [known |-> FALSE, languageId |-> <<>>]
        /\ Forget
        /\ UNCHANGED lmAnswers

(***************************************************************************)
(* Paste: provideDocumentPasteEdits, one action per await.  The host may   *)
(* cancel the token at any time while the call is pending.                 *)
(***************************************************************************)
\* A slip: text === '' in place of !text.
EmptyTextGiven(text) == text.present /\ text.value = ""

\* !text, of the awaited text/plain entry (undefined when absent).
NoTextGiven(text) == ~text.present \/ text.value = ""

\* if (!text || token.isCancellationRequested) return;
ReturnsAt38(text, token) == NoTextGiven(text) \/ token

\* A slip: JSON.parse outside any try block.
ParseMetadataUncaught(payload) ==
    LET r == JSONparse(payload)
    IN  [threw |-> ~r.ok, metadata |-> r.val]

\* The try block: metadata = JSON.parse(await metadataItem.asString()), with
\* catch { } leaving metadata undefined.  threw: an exception leaves the block.
ParseMetadata(payload) ==
    LET r == JSONparse(payload)
    IN  [threw |-> FALSE, metadata |-> IF r.ok THEN r.val ELSE Undefined]

\* A slip: only !models.length is tested after selectChatModels.
ReturnsAt56IgnoringToken(token, models) == Len(models) = 0

\* if (token.isCancellationRequested || !models.length) return;
ReturnsAt56(token, models) == token \/ Len(models) = 0

PasteReturn(result, returned) ==
    /\ ppc' = "done"
    /\ presult' = result
    /\ edits' = returned

\* The host calls the handler; it asks for the text/plain entry and awaits.
ProvideStart ==
    \E document \in Documents :
      \E ranges \in RangeLists(document) :
        /\ Quiet
        /\ ppc' = "p37"
        /\ ptoken' = FALSE
        /\ pcancelAt' = "never"
        /\ pdocument' = document
        /\ pranges' = ranges
        /\ ptext' = NoText
        /\ pmetadata' = Undefined
        /\ lmModels' \in ModelLists
        /\ pparsed' = FALSE
        /\ presult' = "pending"
        /\ edits' = <<>>
        /\ ResolveReset
        /\ HistoryReset
        /\ UNCHANGED <<clipboardVars, lmAnswers>>

\* Lines 37-47 and, with no sidecar entry, on to line 55: the text arrives.
ProvideText ==
    /\ ppc = "p37"
    /\ ptext' = dataTransfer.text
    /\ IF ReturnsAt38(dataTransfer.text, ptoken)
       THEN PasteReturn("undefined", <<>>)
       ELSE /\ ppc' = IF dataTransfer.meta.present THEN "p46" ELSE "p55"
            /\ UNCHANGED <<presult, edits>>
    /\ UNCHANGED <<ptoken, pcancelAt, pdocument, pranges, pmetadata, lmModels,
                   pparsed>>
    /\ UNCHANGED <<clipboardVars, resolveVars, historyVars, lmAnswers>>

\* Lines 46-55: the sidecar string arrives and is parsed.
ProvideMetadata ==
    /\ ppc = "p46"
    /\ LET r == ParseMetadata(dataTransfer.meta.value)
       IN  /\ pparsed' = TRUE
           /\ pmetadata' = r.metadata
           /\ IF r.threw THEN PasteReturn("threw", <<>>)
              ELSE IF ptoken THEN PasteReturn("undefined", <<>>)
              ELSE /\ ppc' = "p55"
                   /\ UNCHANGED <<presult, edits>>
    /\ UNCHANGED <<ptoken, pcancelAt, pdocument, pranges, ptext, lmModels>>
    /\ UNCHANGED <<clipboardVars, resolveVars, historyVars, lmAnswers>>

\* Lines 55-62: selectChatModels answers.
ProvideModels ==
    /\ ppc = "p55"
    /\ IF ReturnsAt56(ptoken, lmModels)
       THEN PasteReturn("undefined", <<>>)
       ELSE PasteReturn("edits",
                <<SmartPasteEdit(ptext.value, pdocument, pranges,
                                 pmetadata, lmModels[1])>>)
    /\ UNCHANGED <<ptoken, pcancelAt, pdocument, pranges, ptext, pmetadata,
                   lmModels, pparsed>>
    /\ UNCHANGED <<clipboardVars, resolveVars, historyVars, lmAnswers>>

\* The host cancels the pending paste.
CancelPaste ==
    /\ ppc \in {"p37", "p46", "p55"}
    /\ ~ptoken
    /\ ptoken' = TRUE
    /\ pcancelAt' = ppc
    /\ UNCHANGED <<ppc, pdocument, pranges, ptext, pmetadata, lmModels, pparsed,
                   presult>>
    /\ UNCHANGED <<clipboardVars, resolveVars, historyVars, edits, lmAnswers>>

(***************************************************************************)
(* Resolve: resolveDocumentPasteEdit, one action per await.                *)
(***************************************************************************)
\* const maxLen = 1000
maxLen == 1000

CursorMarker == <<"<", "<", "C", "U", "R", "S", "O", "R", ">", ">">>

NoContext == [defined |-> FALSE, value |-> <<>>]

\* document.getText(new Range(0, 0, start)) and
\* document.getText(new Range(end, MAX_SAFE_INTEGER, 0)).
TextBefore(document, offset) == SubSeq(DocText(document.length), 1, offset)

TextAfter(document, offset) ==
    SubSeq(DocText(document.length), offset + 1, document.length)

getPasteContext(document, ranges) ==
    LET pre == SliceFrom(TextBefore(document, ranges[1].start), -maxLen)
        post == SliceFrom(TextAfter(document, ranges[1].end), maxLen)
    IN  IF Len(pre) # 0 \/ Len(post) # 0
        THEN [defined |-> TRUE, value |-> pre \o CursorMarker \o post]
        ELSE NoContext

\* A JavaScript value's truthiness, and metadata.sourceLanguage.
Truthy(metadata) == metadata.kind \in {"object", "empty"}

SourceLanguage(metadata) ==
    IF metadata.kind = "object" /\ metadata.key = SourceLanguageKey
    THEN [defined |-> TRUE, value |-> metadata.value]
    ELSE [defined |-> FALSE, value |-> <<>>]

\* A string put into a template literal or concatenated: undefined reads
\* "undefined".
Stringified(v) ==
    IF v.defined THEN v.value
    ELSE <<"u", "n", "d", "e", "f", "i", "n", "e", "d">>

\* A chat message.  kind names which of the three messages it is; from and
\* into are the languages the instructions name, fence the language tag of
\* the fenced block, context the excerpt and text the copied text.
Message(role, kind, from, into, fence, context, text) ==
    [role |-> role, kind |-> kind, from |-> from, into |-> into,
     fence |-> fence, context |-> context, text |-> text]

\* Lines 68-98.
BuildMessages(edit) ==
    LET metadata == edit.metadata
        context == getPasteContext(edit.document, edit.ranges)
        instructions ==
            Message("assistant", "instructions",
                    IF Truthy(metadata)
                    THEN Stringified(SourceLanguage(metadata)) ELSE <<>>,
                    IF Truthy(metadata) THEN edit.document.languageId ELSE <<>>,
                    <<>>, <<>>, "")
        excerpt ==
            Message("user", "context", <<>>, <<>>, edit.document.languageId,
                    context.value, "")
        code ==
            Message("user", "code", <<>>, <<>>,
                    IF metadata.kind \in {"undefined", "null"}
                    THEN <<>>
                    ELSE SourceLanguage(metadata).value,
                    <<>>, edit.text)
    IN  <<instructions>>
        \o (IF context.defined /\ context.value # <<>> THEN <<excerpt>> ELSE <<>>)
        \o <<code>>

\* A slip: parts.join(), whose separator is a comma.
JoinedPartsByComma(chunks) == Join(chunks, <<",">>)

\* parts.join('')
JoinedParts(chunks) == Join(chunks, <<>>)

\* A slip: lines.slice(1), which keeps the closing fence.
NewCodeFromSecondLine(chunks) ==
    LET response == Trim(Join(chunks, <<>>))
        lines == SplitLines(response)
    IN  Join(SliceFrom(lines, 1), <<"\n">>)

\* Lines 117-119.
NewCode(chunks) ==
    LET response == Trim(JoinedParts(chunks))
        lines == SplitLines(response)
    IN  Join(Slice(lines, 1, -1), <<"\n">>)

\* new SnippetTextEdit(x, new SnippetString().appendText(newCode).appendTabstop())
SnippetTextEdit(range, newCode) ==
    [range |-> range, text |-> newCode, tabstop |-> TRUE]

\* A slip: the snippet edits are added to the WorkspaceEdit already attached.
WithAdditionalEditAppended(edit, newCode) ==
    [edit EXCEPT !.additionalEdit =
        [set |-> TRUE,
         entries |-> edit.additionalEdit.entries
                     \o [i \in 1..Len(edit.ranges) |->
                            [range |-> edit.ranges[i], text |-> newCode,
                             tabstop |-> TRUE]]]]

\* Lines 121-123: a fresh WorkspaceEdit for the document, one snippet edit per
\* range, assigned to edit.additionalEdit.
WithAdditionalEdit(edit, newCode) ==
    [edit EXCEPT !.additionalEdit =
        [set |-> TRUE,
         entries |-> [i \in 1..Len(edit.ranges) |->
                         SnippetTextEdit(edit.ranges[i], newCode)]]]

ResolveReturn(result) ==
    /\ rpc' = "done"
    /\ rresult' = result

\* Lines 66-100: the user picked the candidate; the prompt is built and
\* sendRequest is called and awaited.
ResolveStart ==
    /\ Quiet
    /\ Len(edits) = 1
    /\ resolves < MaxResolves
    /\ rpc' = "r100"
    /\ rtoken' = FALSE
    /\ rcancelAt' = "never"
    /\ rthrew' = "none"
    /\ messages' = BuildMessages(edits[1])
    /\ stream' = <<>>
    /\ parts' = <<>>
    /\ rresult' = "pending"
    /\ wrote' = FALSE
    /\ resolves' = resolves + 1
    /\ requests' = requests + 1
    /\ UNCHANGED <<writes, firstOk, edits>>
    /\ UNCHANGED <<clipboardVars, pasteVars, lmAnswers>>

\* Lines 100-107: sendRequest answers with a response whose stream will
\* deliver some text of the model's; the loop asks for the first chunk.
SendRequestReturn ==
    \E response \in lmAnswers :
        /\ rpc = "r100"
        /\ stream' = response
        /\ IF rtoken THEN ResolveReturn("undefined")
           ELSE /\ rpc' = "r107"
                /\ UNCHANGED rresult
        /\ UNCHANGED <<rtoken, rcancelAt, rthrew, messages, parts, wrote>>
        /\ UNCHANGED <<clipboardVars, pasteVars, historyVars, edits, lmAnswers>>

\* Line 100: sendRequest rejects; nothing catches it there.
SendRequestThrow ==
    /\ rpc = "r100"
    /\ rthrew' = "sendRequest"
    /\ ResolveReturn("threw")
    /\ UNCHANGED <<rtoken, rcancelAt, messages, stream, parts, wrote>>
    /\ UNCHANGED <<clipboardVars, pasteVars, historyVars, edits, lmAnswers>>

\* Lines 107-111: the stream delivers its next chunk, the next n characters.
StreamChunk ==
    \E n \in 0..Len(stream) :
        /\ rpc = "r107"
        /\ Len(parts) < MaxChunks
        /\ parts' = Append(parts, SubSeq(stream, 1, n))
        /\ stream' = SubSeq(stream, n + 1, Len(stream))
        /\ IF rtoken THEN ResolveReturn("undefined")
           ELSE UNCHANGED <<rpc, rresult>>
        /\ UNCHANGED <<rtoken, rcancelAt, rthrew, messages, wrote>>
        /\ UNCHANGED <<clipboardVars, pasteVars, historyVars, edits, lmAnswers>>

\* Lines 107, 117-125: the stream ends; the edit is built and attached.
StreamEnd ==
    /\ rpc = "r107"
    /\ stream = <<>>
    /\ edits' = <<WithAdditionalEdit(edits[1], NewCode(parts))>>
    /\ wrote' = TRUE
    /\ writes' = writes + 1
    /\ firstOk' = IF firstOk.known THEN firstOk
                  ELSE [known |-> TRUE, chunks |-> Len(parts),
                        text |-> NewCode(parts)]
    /\ ResolveReturn("edit")
    /\ UNCHANGED <<rtoken, rcancelAt, rthrew, messages, stream, parts>>
    /\ UNCHANGED <<resolves, requests>>
    /\ UNCHANGED <<clipboardVars, pasteVars, lmAnswers>>

\* Lines 107, 113-115: the stream throws; the catch returns.
StreamThrow ==
    /\ rpc = "r107"
    /\ rthrew' = "stream"
    /\ ResolveReturn("undefined")
    /\ UNCHANGED <<rtoken, rcancelAt, messages, stream, parts, wrote>>
    /\ UNCHANGED <<clipboardVars, pasteVars, historyVars, edits, lmAnswers>>

\* The host cancels the pending resolution.
CancelResolve ==
    /\ rpc \in {"r100", "r107"}
    /\ ~rtoken
    /\ rtoken' = TRUE
    /\ rcancelAt' = IF rpc = "r100" THEN "r100"
                    ELSE IF stream = <<>> THEN "ending"
                    ELSE "streaming"
    /\ UNCHANGED <<rpc, rthrew, messages, stream, parts, rresult, wrote>>
    /\ UNCHANGED <<clipboardVars, pasteVars, historyVars, edits, lmAnswers>>

(***************************************************************************)
(* Specifications.                                                         *)
(***************************************************************************)
Next ==
    \/ Copy
    \/ ForeignCopy
    \/ ProvideStart
    \/ ProvideText
    \/ ProvideMetadata
    \/ ProvideModels
    \/ CancelPaste
    \/ ResolveStart
    \/ SendRequestReturn
    \/ SendRequestThrow
    \/ StreamChunk
    \/ StreamEnd
    \/ StreamThrow
    \/ CancelResolve

Spec == Init /\ [][Next]_vars

\* The state in which text copied from a document of language languageId
\* was pasted at ranges of document and the candidate was proposed: what
\* Copy, ProvideStart, ProvideText, ProvideMetadata and ProvideModels lead to.
Proposed(languageId, document, ranges) ==
    LET source == [languageId |-> languageId, length |-> 0]
        text == TextItem("def f(x): return x+1")
        models == <<"gpt-4", "gpt-4-32k">>
    IN  /\ dataTransfer =
               prepareDocumentPaste(source, [text |-> text, meta |-> NoItem])
        /\ copiedFrom = [known |-> TRUE, languageId |-> languageId]
        /\ ppc = "done"
        /\ ptoken = FALSE
        /\ pcancelAt = "never"
        /\ pdocument = document
        /\ pranges = ranges
        /\ ptext = text
        /\ pmetadata = NewCopyMetadata(source)
        /\ lmModels = models
        /\ pparsed = TRUE
        /\ presult = "edits"
        /\ edits = <<SmartPasteEdit(text.value, document, ranges,
                                    NewCopyMetadata(source), models[1])>>
        /\ ResolveIdle
        /\ HistoryIdle

\* The response stream on its own: a candidate was proposed, the model
\* answers every request with one and the same text, any text up to the
\* bound, and nothing is cancelled and nothing throws, so that the only
\* thing that varies between two resolutions is where the chunks are cut.
InitStream ==
    /\ Proposed(Js, [languageId |-> Py, length |-> 2], <<RangeOf(1, 1)>>)
    /\ \E response \in Responses : lmAnswers = {response}

NextStream ==
    \/ ResolveStart
    \/ SendRequestReturn
    \/ StreamChunk
    \/ StreamEnd

SpecStream == InitStream /\ [][NextStream]_vars

\* The context excerpt on its own: a candidate was proposed for a range of
\* a document whose length and range offsets lie around 0, maxLen and
\* 2 * maxLen, and the user picks it.
ContextOffsets ==
    {0, 1, maxLen - 1, maxLen, maxLen + 1, 2 * maxLen, 2 * maxLen + ExtraDocLen}

InitContext ==
    /\ \E length \in ContextOffsets :
         \E s \in ContextOffsets, e \in ContextOffsets :
            /\ s <= e
            /\ e <= length
            /\ Proposed(Js, [languageId |-> Py, length |-> length],
                        <<RangeOf(s, e)>>)
    /\ lmAnswers = MainAnswers

NextContext == ResolveStart

SpecContext == InitContext /\ [][NextContext]_vars

(***************************************************************************)
(* What the claims are stated with: a response's fence body, read off the  *)
(* characters rather than computed by trim, split, slice and join.         *)
(***************************************************************************)
\* The concatenation of the chunks, last chunk last.
RECURSIVE Flat(_)
Flat(chunks) ==
    IF chunks = <<>> THEN <<>>
    ELSE Flat(SubSeq(chunks, 1, Len(chunks) - 1)) \o chunks[Len(chunks)]

\* s from its first to its last character that is not white space.
Inner(s) ==
    LET black == { i \in 1..Len(s) : s[i] \notin WhiteSpace }
    IN  IF black = {} THEN <<>>
        ELSE SubSeq(s, CHOOSE i \in black : \A j \in black : i <= j,
                       CHOOSE i \in black : \A j \in black : i >= j)

\* Where the line terminators of t start: a CR, or an LF that does not
\* follow a CR.
BreakStarts(t) ==
    { i \in 1..Len(t) :
        \/ t[i] = "\r"
        \/ t[i] = "\n" /\ ~(i > 1 /\ t[i - 1] = "\r") }

BreakLen(t, i) == IF t[i] = "\r" /\ i < Len(t) /\ t[i + 1] = "\n" THEN 2 ELSE 1

\* b with every line terminator written as one LF.
RECURSIVE OneLF(_)
OneLF(b) ==
    IF b = <<>> THEN <<>>
    ELSE IF Len(b) >= 2 /\ b[1] = "\r" /\ b[2] = "\n"
         THEN <<"\n">> \o OneLF(SubSeq(b, 3, Len(b)))
    ELSE IF b[1] = "\r" THEN <<"\n">> \o OneLF(Tail(b))
    ELSE <<b[1]>> \o OneLF(Tail(b))

\* What lies between the first and the last line of the response r, once
\* stripped of surrounding white space: nothing when it has fewer than three
\* lines.
FenceBody(r) ==
    LET t == Inner(r)
        breaks == BreakStarts(t)
    IN  IF Cardinality(breaks) < 2 THEN <<>>
        ELSE LET first == CHOOSE i \in breaks : \A j \in breaks : i <= j
                 last == CHOOSE i \in breaks : \A j \in breaks : i >= j
             IN  OneLF(SubSeq(t, first + BreakLen(t, first), last - 1))

\* Every snippet edit of the candidate's additionalEdit carries text.
AllEntriesCarry(text) ==
    /\ Len(edits) = 1
    /\ edits[1].additionalEdit.set
    /\ \A i \in 1..Len(edits[1].additionalEdit.entries) :
           edits[1].additionalEdit.entries[i].text = text

Resolved == rpc = "done" /\ rresult = "edit"

(***************************************************************************)
(* The claims.                                                             *)
(***************************************************************************)

\* C1: a resolution whose token was cancelled before it returned returns no
\* edit and assigns no additionalEdit, wherever the cancellation fell.
C1_CancelledNeverApplies ==
    (rpc = "done" /\ rtoken) => (rresult # "edit" /\ ~wrote)

\* C2: when the chat request throws, from sendRequest itself or from the
\* stream, the resolution returns no result, attaches no edit and lets no
\* exception out.
C2_RequestFailureCaught ==
    (rpc = "done" /\ rthrew # "none") => (rresult = "undefined" /\ ~wrote)

\* C3 as claimed: over all the resolutions of one candidate, additionalEdit
\* is assigned at most once.
C3_WrittenOnce == writes <= 1

\* C3 as amended: every successful resolution assigns additionalEdit anew,
\* and what it holds is never an accumulation: unset until the first
\* success, and from then on exactly one snippet edit per range of the
\* candidate, in the ranges' order, all carrying one text, which after a
\* successful resolution is that resolution's fence body.
C3_OverwrittenNotAccumulated ==
    Len(edits) = 1 =>
        LET e == edits[1]
            a == e.additionalEdit
        IN  /\ a.set <=> writes > 0
            /\ ~a.set => a.entries = <<>>
            /\ a.set =>
                 /\ Len(a.entries) = Len(e.ranges)
                 /\ \A i \in 1..Len(a.entries) :
                        /\ a.entries[i].range = e.ranges[i]
                        /\ a.entries[i].text = a.entries[1].text
            /\ Resolved => a.set /\ a.entries[1].text = FenceBody(Flat(parts))

\* C3's case: a second successful resolution of a candidate of two ranges
\* replaced the text the first one had attached.
C3_Witness ==
    /\ Resolved
    /\ writes = 2
    /\ Len(edits[1].ranges) = 2
    /\ firstOk.text # edits[1].additionalEdit.entries[1].text

\* C4: once the paste's token is cancelled, which the host can do only
\* until model selection completes, no candidate is returned and no chat
\* request is made.
C4_CancelledPasteProposesNothing ==
    ptoken =>
        /\ edits = <<>>
        /\ requests = 0
        /\ rpc = "idle"
        /\ presult \in {"pending", "undefined"}

\* C4's case: cancelled while selectChatModels was pending, which then
\* answered with models.
C4_Witness ==
    /\ ppc = "done"
    /\ pcancelAt = "p55"
    /\ lmModels # <<>>
    /\ pparsed

\* C5: a paste of a transfer object with no text/plain entry returns no
\* candidate, and goes no further than reading the text.
C5_NoTextNoCandidate ==
    (ppc # "idle" /\ ~dataTransfer.text.present) =>
        /\ edits = <<>>
        /\ ppc \in {"p37", "done"}
        /\ presult \in {"pending", "undefined"}

\* C5's case: the paste returned, uncancelled, for a transfer object with a
\* sidecar entry and no text.
C5_Witness ==
    /\ ppc = "done"
    /\ ~dataTransfer.text.present
    /\ dataTransfer.meta.present
    /\ ~ptoken

\* C6: after an uncancelled stream that ended without error, the text of
\* every snippet edit is the fence body of the concatenated chunks, and it
\* is empty when the trimmed response has fewer than three lines.
C6_EditTextIsFenceBody ==
    (Resolved /\ ~rtoken) =>
        /\ AllEntriesCarry(FenceBody(Flat(parts)))
        /\ Cardinality(BreakStarts(Inner(Flat(parts)))) < 2
               => AllEntriesCarry(<<>>)

\* C6's case: a response delivered in several chunks whose fence body is
\* not empty.
C6_Witness ==
    /\ Resolved
    /\ Len(parts) >= 2
    /\ ~AllEntriesCarry(<<>>)

\* C9: the model answering with one character sequence, every successful
\* resolution attaches the text the first one attached, however the
\* sequence was cut into chunks.
C9_ChunkingIndependent ==
    (Resolved /\ ~rtoken /\ firstOk.known) => AllEntriesCarry(firstOk.text)

\* C9's case: a second resolution that received the same characters in
\* another number of chunks, with a text that is not empty.
C9_Witness ==
    /\ Resolved
    /\ resolves = 2
    /\ Len(parts) # firstOk.chunks
    /\ firstOk.text # <<>>
    /\ lmAnswers = {Flat(parts)}

\* C7: once a paste has parsed the sidecar entry of a transfer object that
\* prepareDocumentPaste wrote, its metadata, and that of the candidate, is
\* {sourceLanguage: the language of the document copied from}.
C7_SidecarRoundTrip ==
    (copiedFrom.known /\ pparsed) =>
        /\ pmetadata = JsonObject(SourceLanguageKey, copiedFrom.languageId)
        /\ \A i \in 1..Len(edits) : edits[i].metadata = pmetadata

\* C7's case: text copied from a document whose language identifier needs
\* escaping, pasted into a document of another language, candidate returned.
C7_Witness ==
    /\ copiedFrom.known
    /\ copiedFrom.languageId = Odd
    /\ pparsed
    /\ pdocument.languageId = Py
    /\ Len(edits) = 1

\* The excerpt the claim describes: up to maxLen characters before the
\* first range's start and up to maxLen after its end around the marker, or
\* nothing when both are empty.
ClaimedContext(document, range) ==
    LET before == Min(maxLen, range.start)
        after == Min(maxLen, document.length - range.end)
        prefix == [i \in 1..before |-> ToString(range.start - before + i)]
        suffix == [i \in 1..after |-> ToString(range.end + i)]
    IN  IF before = 0 /\ after = 0 THEN NoContext
        ELSE [defined |-> TRUE, value |-> prefix \o CursorMarker \o suffix]

\* C8: the prompt carries a context message exactly when the claimed
\* excerpt is not empty, the message carries that excerpt, and the excerpt
\* is at most 2 * maxLen + 10 characters long.
C8_ContextExcerpt ==
    rpc = "r100" =>
        LET e == edits[1]
            claimed == ClaimedContext(e.document, e.ranges[1])
            sent == { i \in 1..Len(messages) : messages[i].kind = "context" }
        IN  /\ claimed.defined <=> sent # {}
            /\ \A i \in sent :
                   /\ messages[i].context = claimed.value
                   /\ Len(messages[i].context) <= 2 * maxLen + 10

\* C10: a paste of text with a malformed sidecar entry that is not
\* cancelled and finds a model returns exactly one candidate, whose
\* metadata is undefined, and throws nothing.
C10_MalformedIsNoMetadata ==
    ( /\ ppc = "done"
      /\ ~NoTextGiven(dataTransfer.text)
      /\ dataTransfer.meta.present
      /\ dataTransfer.meta.value \in MalformedPayloads
      /\ ~ptoken
      /\ lmModels # <<>> ) =>
        /\ presult = "edits"
        /\ Len(edits) = 1
        /\ edits[1].metadata = Undefined

\* C10's case: such a paste has returned, for a payload cut inside its value.
C10_Witness ==
    /\ ppc = "done"
    /\ dataTransfer.meta.present
    /\ dataTransfer.meta.value \in MalformedPayloads
    /\ dataTransfer.meta.value # <<>>
    /\ pparsed
    /\ ~ptoken
    /\ lmModels # <<>>

====
